---- MODULE Spec2Model ----
(***************************************************************************)
(* Kinneret water-level pipeline.                                          *)
(*                                                                         *)
(*   Fetcher     get_all_kinneret_levels      (testing_api.py)             *)
(*   Normalizer  test_kinneret_api, lines 50-112                           *)
(*               (script_just_to_test_if_API_is_working.py)                *)
(*               load_data (streamlit_water_level_project.py)              *)
(*                                                                         *)
(* The two components are checked under two specifications, FetchSpec and  *)
(* NormalizeSpec, that share the variables of this module.                 *)
(***************************************************************************)
EXTENDS Integers, Sequences, FiniteSets, TLC

VARIABLES
    \* ---- get_all_kinneret_levels ----
    all_records,     \* the accumulator list; a record is its position in the server's data
    offset,          \* offset of the next request
    total_records,   \* None until the first accumulated page, then what result.get('total', 0) gave
    fpc,             \* "loop": at the top of `while True`; "returned": after `return all_records`;
                     \* "raised": an exception left the function; "idle": the fetcher is not running
    requests,        \* history: number of requests.get calls issued
    last,            \* history: the server's answer to the latest request
    prev_records,    \* history: all_records as it was when the latest request was issued
    clean,           \* history: every answer so far was a well-formed envelope with success true
    within,          \* history: every accumulated page carried at most
                     \*          min(batch_size, total - offset) records
    beyond,          \* history: some accumulated page was served at an offset >= total
    requested,       \* history: the offsets of the requests issued, in order
    earlier,         \* history: what an earlier invocation handed its caller, and whether
                     \*          it had failed (NoRun while there was none)
    server,          \* history: how the server has answered so far: "exact" (for every
                     \*          request the records at [offset, offset + limit) of a fixed
                     \*          sequence and its length as total), "capped" (as exact, but
                     \*          some page shorter than asked for), "other"
    \* ---- test_kinneret_api (lines 50-112) and load_data ----
    records,         \* input: the raw records (all_records of the script, the rows of the CSV)
    df,              \* the DataFrame: [cols, index, rows]
    npc,             \* "start" | "dates" | "derive" | "clean" | "returned" | "raised" (script);
                     \* "loaded" | "fallback" (load_data); "sampled" (print_kinneret_data_sample);
                     \* "idle": the normalizer is not running
    date_columns,    \* the script's list of the same name
    level_columns,   \* the script's list of the same name
    date_col,        \* the script's date_col (NoCol while unset)
    level_col,       \* the script's level_col (NoCol while unset)
    date_field,      \* print_kinneret_data_sample's date_field (NoCol for None)
    level_field,     \* print_kinneret_data_sample's level_field (NoCol for None)
    adopted,         \* the format of date_formats that converted the column; "auto" after
                     \* the automatic parsing; "none" before the conversion
    dropped,         \* original_count - len(df) of the script's cleaning step
    steps            \* history: the steps of the script that ran, in order

fetch_vars == <<all_records, offset, total_records, fpc, requests, last, prev_records,
                clean, within, beyond, requested, server, earlier>>

norm_vars == <<records, df, npc, date_columns, level_columns, date_col, level_col,
               date_field, level_field, adopted, dropped, steps>>

vars == <<fetch_vars, norm_vars>>

----------------------------------------------------------------------------
(* Bounds of the model *)

\* Page size.  The program uses 1000 (testing_api.py:22); the model runs the same
\* loop with a small page so that whole runs of several pages are enumerated.
batch_size == 3

\* Largest `total` the modelled server reports.
MaxTotal == 7

\* Largest number of fields of an input record.
MaxFields == 3

\* Largest number of input records handed to the normalizer.
MaxRows == 2

----------------------------------------------------------------------------
(* Values *)

\* Python's None for total_records, and the two kinds of value result.get('total', 0)
\* can give: an integer, or a JSON value that is no number (null, a string, ...).
NoneTotal == [kind |-> "None", v |-> 0]
IntTotal(n) == [kind |-> "int", v |-> n]
OtherTotal == [kind |-> "other", v |-> 0]

\* The records a server holding its data by position returns for (offset, n records).
Recs(o, n) == [i \in 1..n |-> o + i - 1]

\* What one requests.get + raise_for_status + response.json() can produce.
\*   outcome  "network_error"  requests.get raised (ConnectionError, Timeout, ...)
\*            "http_error"     raise_for_status raised HTTPError (non-2xx)
\*            "bad_json"       response.json() raised JSONDecodeError
\*            "json"           a JSON value was decoded:
\*   object   the body is a JSON object (otherwise an array, null, a number, ...)
\*   success  "absent" | "true" | "false"
\*   result   "absent" | "object" | "other"
\*   records  "absent" | "array"        n: the number of records of the array
\*   total    "absent" | "int" | "other"  t: the integer
Failure(o) == [outcome |-> o, object |-> FALSE, success |-> "absent", result |-> "absent",
               records |-> "absent", n |-> 0, total |-> "absent", t |-> 0]

TransportFailures == {Failure("network_error"), Failure("http_error"), Failure("bad_json")}

NotAnObject == Failure("json")

Envelope(s, r, rec, n, tot, t) ==
    [outcome |-> "json", object |-> TRUE, success |-> s, result |-> r,
     records |-> rec, n |-> n, total |-> tot, t |-> t]

Envelopes ==
    { Envelope(s, "absent", "absent", 0, "absent", 0) : s \in {"absent", "true", "false"} }
    \cup { Envelope(s, "other", "absent", 0, "absent", 0) : s \in {"absent", "true", "false"} }
    \cup { Envelope(s, "object", "absent", 0, tot, 0) :
              s \in {"absent", "true", "false"}, tot \in {"absent", "other"} }
    \cup { Envelope(s, "object", "absent", 0, "int", t) :
              s \in {"absent", "true", "false"}, t \in 0..MaxTotal }
    \cup { Envelope(s, "object", "array", n, tot, 0) :
              s \in {"absent", "true", "false"}, n \in 0..(batch_size + 1),
              tot \in {"absent", "other"} }
    \cup { Envelope(s, "object", "array", n, "int", t) :
              s \in {"absent", "true", "false"}, n \in 0..(batch_size + 1),
              t \in 0..MaxTotal }

Responses == TransportFailures \cup {NotAnObject} \cup Envelopes

\* The envelope of section 6: {success: boolean, result.total: integer, result.records: array}
WellFormed(resp) ==
    /\ resp.outcome = "json"
    /\ resp.object
    /\ resp.success \in {"true", "false"}
    /\ resp.result = "object"
    /\ resp.records = "array"
    /\ resp.total = "int"

----------------------------------------------------------------------------
(* get_all_kinneret_levels, testing_api.py:6-81 *)

\* Variant: the success flag is not looked at.
SuccessFlagUnchecked(resp) == TRUE

\* data.get('success', False) is truthy
SuccessFlag(resp) == resp.success = "true"

\* records = result.get('records', [])  -- the list of this page
PageRecords(resp, o) ==
    IF resp.records = "array" THEN Recs(o, resp.n) ELSE <<>>

\* total_records = result.get('total', 0)
ReadTotal(resp) ==
    CASE resp.total = "int"    -> IntTotal(resp.t)
      [] resp.total = "absent" -> IntTotal(0)
      [] OTHER                 -> OtherTotal

\* if total_records is None: total_records = result.get('total', 0)
TotalAfter(resp) ==
    IF total_records.kind = "None" THEN ReadTotal(resp) ELSE total_records

\* Variants: the offset advanced by one record / not advanced at all.
NextOffsetByOne(o) == o + 1

NextOffsetStuck(o) == o

\* offset += batch_size
NextOffset(o) == o + batch_size

\* Variant: the loop is left after the first page with records.
RetrievedAtOnce(recs, tot) == TRUE

\* len(all_records) >= total_records
Retrieved(recs, tot) == Len(recs) >= tot.v

\* No earlier invocation.
NoRun == [ran |-> FALSE, result |-> <<>>, message |-> "", failed |-> FALSE,
          clean |-> FALSE]

InitFetchVars ==
    /\ all_records = <<>>
    /\ offset = 0
    /\ total_records = NoneTotal
    /\ requests = 0
    /\ last = Failure("none")
    /\ prev_records = <<>>
    /\ clean = TRUE
    /\ within = TRUE
    /\ beyond = FALSE
    /\ requested = <<>>
    /\ server = "exact"
    /\ earlier = NoRun

Min(a, b) == IF a <= b THEN a ELSE b

\* The number of records a server holding N records has at positions [o, o + limit).
Available(N, o) == IF o >= N THEN 0 ELSE Min(batch_size, N - o)

\* resp is the answer to (offset o, limit batch_size) of a server that holds resp.t
\* records and serves the whole window / a non-empty part of the window.
ExactAnswer(resp, o) ==
    /\ WellFormed(resp) /\ resp.success = "true"
    /\ resp.n = Available(resp.t, o)

CappedAnswer(resp, o) ==
    /\ WellFormed(resp) /\ resp.success = "true"
    /\ resp.n <= Available(resp.t, o)
    /\ (Available(resp.t, o) > 0 => resp.n > 0)

\* The server's behaviour once resp has answered the request at the current offset.
ServerAfter(resp) ==
    LET same == (requests = 0 \/ resp.t = last.t) IN
    IF server = "exact" /\ same /\ ExactAnswer(resp, offset) THEN "exact"
    ELSE IF server # "other" /\ same /\ CappedAnswer(resp, offset) THEN "capped"
    ELSE "other"

\* requests.get(base_url, params=params), answered by resp
Issue(resp) ==
    /\ requests' = requests + 1
    /\ last' = resp
    /\ prev_records' = all_records
    /\ clean' = (clean /\ WellFormed(resp) /\ resp.success = "true")
    /\ requested' = Append(requested, offset)
    /\ server' = ServerAfter(resp)

\* Variant: a failed request is followed by another try.
RequestErrorRetried ==
    /\ fpc = "loop"
    /\ UNCHANGED norm_vars
    /\ \E resp \in TransportFailures : Issue(resp)
    /\ fpc' = "loop"
    /\ UNCHANGED <<all_records, offset, total_records, within, beyond, earlier>>

\* requests.get, raise_for_status or response.json() raises; both except clauses break.
RequestError ==
    /\ fpc = "loop"
    /\ UNCHANGED norm_vars
    /\ \E resp \in TransportFailures : Issue(resp)
    /\ fpc' = "returned"
    /\ UNCHANGED <<all_records, offset, total_records, within, beyond, earlier>>

\* The body is valid JSON but no object: data.get raises AttributeError, which neither
\* except clause catches.
BodyNotObject ==
    /\ fpc = "loop"
    /\ UNCHANGED norm_vars
    /\ Issue(NotAnObject)
    /\ fpc' = "raised"
    /\ UNCHANGED <<all_records, offset, total_records, within, beyond, earlier>>

\* if not data.get('success', False): break
ApiError ==
    /\ fpc = "loop"
    /\ UNCHANGED norm_vars
    /\ \E resp \in Envelopes :
          /\ ~SuccessFlag(resp)
          /\ Issue(resp)
    /\ fpc' = "returned"
    /\ UNCHANGED <<all_records, offset, total_records, within, beyond, earlier>>

\* result = data.get('result', {}) is no object: result.get raises AttributeError.
ResultNotObject ==
    /\ fpc = "loop"
    /\ UNCHANGED norm_vars
    /\ \E resp \in Envelopes :
          /\ SuccessFlag(resp)
          /\ resp.result = "other"
          /\ Issue(resp)
    /\ fpc' = "raised"
    /\ UNCHANGED <<all_records, offset, total_records, within, beyond, earlier>>

\* if not records: break
NoRecords ==
    /\ fpc = "loop"
    /\ UNCHANGED norm_vars
    /\ \E resp \in Envelopes :
          /\ SuccessFlag(resp)
          /\ resp.result # "other"
          /\ PageRecords(resp, offset) = <<>>
          /\ Issue(resp)
    /\ fpc' = "returned"
    /\ UNCHANGED <<all_records, offset, total_records, within, beyond, earlier>>

\* A page with records: extend, read the total once, advance the offset, then either
\* break (all retrieved), loop again, or fail on comparing the length with a total that
\* is no number (TypeError, uncaught).
Accumulate ==
    /\ fpc = "loop"
    /\ UNCHANGED norm_vars
    /\ \E resp \in Envelopes :
          /\ SuccessFlag(resp)
          /\ resp.result # "other"
          /\ PageRecords(resp, offset) # <<>>
          /\ Issue(resp)
          /\ all_records' = all_records \o PageRecords(resp, offset)
          /\ total_records' = TotalAfter(resp)
          /\ offset' = NextOffset(offset)
          /\ within' = (within /\ total_records'.kind = "int"
                               /\ resp.n <= batch_size
                               /\ resp.n <= total_records'.v - offset)
          /\ beyond' = (beyond \/ total_records'.kind # "int"
                               \/ offset >= total_records'.v)
          /\ fpc' = IF total_records'.kind = "other" THEN "raised"
                    ELSE IF Retrieved(all_records', total_records') THEN "returned"
                    ELSE "loop"
    /\ UNCHANGED earlier

NextFetch ==
    \/ RequestError
    \/ BodyNotObject
    \/ ApiError
    \/ ResultNotObject
    \/ NoRecords
    \/ Accumulate

\* The latest request failed in one of the four ways of the fetcher's failure policy.
FailedLast ==
    \/ last \in TransportFailures
    \/ (last.outcome = "json" /\ last.object /\ last.success = "false")

\* __main__ (lines 187-211): what the caller does with the returned list.
MainMessage(data) ==
    IF data # <<>> THEN "Successfully retrieved"
    ELSE "Failed to retrieve Kinneret water level data."

\* get_all_kinneret_levels() is called once more, after an invocation that returned an
\* empty list: the locals start afresh (lines 19-23); what the first invocation handed
\* its caller is kept for comparison.
Rerun ==
    /\ fpc = "returned"
    /\ all_records = <<>>
    /\ ~earlier.ran
    /\ earlier' = [ran |-> TRUE, result |-> all_records,
                   message |-> MainMessage(all_records), failed |-> FailedLast,
                   clean |-> clean]
    /\ all_records' = <<>>
    /\ offset' = 0
    /\ total_records' = NoneTotal
    /\ requests' = 0
    /\ last' = Failure("none")
    /\ prev_records' = <<>>
    /\ clean' = TRUE
    /\ within' = TRUE
    /\ beyond' = FALSE
    /\ requested' = <<>>
    /\ server' = "exact"
    /\ fpc' = "loop"
    /\ UNCHANGED norm_vars

NextTwoRuns ==
    \/ RequestError
    \/ BodyNotObject
    \/ ApiError
    \/ ResultNotObject
    \/ NoRecords
    \/ Accumulate
    \/ Rerun

----------------------------------------------------------------------------
(* Strings: a field name is the sequence of its characters *)

UpperCase == <<"A","B","C","D","E","F","G","H","I","J","K","L","M",
               "N","O","P","Q","R","S","T","U","V","W","X","Y","Z">>
LowerCase == <<"a","b","c","d","e","f","g","h","i","j","k","l","m",
               "n","o","p","q","r","s","t","u","v","w","x","y","z">>

LowerChar(ch) ==
    IF \E i \in DOMAIN UpperCase : UpperCase[i] = ch
    THEN LowerCase[CHOOSE i \in DOMAIN UpperCase : UpperCase[i] = ch]
    ELSE ch

\* str.lower()
Lower(str) == [i \in DOMAIN str |-> LowerChar(str[i])]

\* `sub in str`
Contains(sub, str) ==
    \E i \in 0..(Len(str) - Len(sub)) : SubSeq(str, i + 1, i + Len(sub)) = sub

\* The keywords of lines 60-62.  A Hebrew letter is written by its name.
KwDate     == <<"d","a","t","e">>
KwSurvey   == <<"s","u","r","v","e","y">>
KwTaarikh  == <<"tav","alef","resh","yod","final_kaf">>
KwLevel    == <<"l","e","v","e","l">>
KwKinneret == <<"k","i","n","n","e","r","e","t">>
KwMiflas   == <<"mem","pe","lamed","samekh">>
KwKineret  == <<"kaf","nun","resh","tav">>

DateTerms  == <<KwDate, KwSurvey, KwTaarikh>>
LevelTerms == <<KwLevel, KwKinneret, KwMiflas, KwKineret>>

\* Column names the script itself creates.
Survey_Date    == <<"S","u","r","v","e","y","_","D","a","t","e">>
Kinneret_Level == <<"K","i","n","n","e","r","e","t","_","L","e","v","e","l">>
ColDate        == <<"d","a","t","e">>
ColWaterLevel  == <<"w","a","t","e","r","_","l","e","v","e","l">>
ColYear        == <<"y","e","a","r">>
ColMonth       == <<"m","o","n","t","h">>

----------------------------------------------------------------------------
(* Cells *)

Cell(k, a, b, c) == [k |-> k, a |-> a, b |-> b, c |-> c]

Null      == Cell("null", 0, 0, 0)     \* None / missing
NaN       == Cell("nan", 0, 0, 0)      \* float NaN of a numeric column
NaT       == Cell("NaT", 0, 0, 0)      \* null of a datetime column
Num(v)    == Cell("num", v, 0, 0)      \* a JSON number
NumStr(v) == Cell("numstr", v, 0, 0)   \* a string that spells the number v
Text      == Cell("text", 0, 0, 0)     \* a string that is neither a number nor a date
IsoT(y, m, d)  == Cell("iso_t", y, m, d)   \* "y-m-dT00:00:00"
Iso(y, m, d)   == Cell("iso", y, m, d)     \* "y-m-d"
Slash(a, b, y) == Cell("slash", a, b, y)   \* "a/b/y"
Ts(y, m, d)    == Cell("ts", y, m, d)      \* a Timestamp

IsNull(cell) == cell.k \in {"null", "nan", "NaT"}

\* Days since an epoch are not needed: timestamps compare as (year, month, day).
DateKey(ts) == ts.a * 10000 + ts.b * 100 + ts.c

DaysIn(m) == IF m = 2 THEN 28 ELSE IF m \in {4, 6, 9, 11} THEN 30 ELSE 31

ValidDate(m, d) == m \in 1..12 /\ d >= 1 /\ d <= DaysIn(m)

----------------------------------------------------------------------------
(* The DataFrame *)

Range(seq) == {seq[i] : i \in DOMAIN seq}

\* pd.DataFrame(all_records): no columns at all for an empty list, otherwise the keys
\* of the records in order; the index is 0..n-1.
DataFrame(recs, names) ==
    [cols  |-> IF recs = <<>> THEN <<>> ELSE names,
     index |-> [i \in DOMAIN recs |-> i - 1],
     rows  |-> recs]

\* pd.DataFrame(columns=[...])
EmptyFrame(names) == [cols |-> names, index |-> <<>>, rows |-> <<>>]

HasCol(d, name) == name \in Range(d.cols)

\* df[name] as the sequence of its cells
Col(d, name) == [i \in DOMAIN d.rows |-> d.rows[i][name]]

\* Variant: a new column is put in front of the existing ones.
SetColInFront(d, name, values) ==
    [cols  |-> IF HasCol(d, name) THEN d.cols ELSE <<name>> \o d.cols,
     index |-> d.index,
     rows  |-> [i \in DOMAIN d.rows |->
                  [c \in (DOMAIN d.rows[i]) \cup {name} |->
                      IF c = name THEN values[i] ELSE d.rows[i][c]]]]

\* df[name] = values
SetCol(d, name, values) ==
    [cols  |-> IF HasCol(d, name) THEN d.cols ELSE Append(d.cols, name),
     index |-> d.index,
     rows  |-> [i \in DOMAIN d.rows |->
                  [c \in (DOMAIN d.rows[i]) \cup {name} |->
                      IF c = name THEN values[i] ELSE d.rows[i][c]]]]

\* the rows at positions p[1], p[2], ... (with their index labels)
Take(d, p) ==
    [cols  |-> d.cols,
     index |-> [i \in DOMAIN p |-> d.index[p[i]]],
     rows  |-> [i \in DOMAIN p |-> d.rows[p[i]]]]

\* df.reset_index(drop=True)
ResetIndex(d) == [d EXCEPT !.index = [i \in DOMAIN d.rows |-> i - 1]]

----------------------------------------------------------------------------
(* Inputs of the normalizer *)

\* A field of the upstream records: its name, and what its cells hold.
Field(name, carries) == [name |-> name, carries |-> carries]

FSurveyDate    == Field(Survey_Date, "date")
FKinneretLevel == Field(Kinneret_Level, "level")
FId            == Field(<<"_","i","d">>, "other")
FTaarikh       == Field(KwTaarikh, "date")
FWhen          == Field(<<"W","h","e","n">>, "date")
FMeasure       == Field(<<"M","e","a","s","u","r","e">>, "level")
FLEVEL         == Field(<<"L","E","V","E","L">>, "level")

Fields == {FSurveyDate, FKinneretLevel, FId, FTaarikh, FWhen, FMeasure, FLEVEL}

\* The ordered field lists: up to MaxFields distinct fields.
Schemas ==
    { sch \in UNION { [1..n -> Fields] : n \in 0..MaxFields } :
        \A i, j \in DOMAIN sch : i # j => sch[i] # sch[j] }


DateCells ==
    { IsoT(2020, 1, 2),        \* 2020-01-02T00:00:00
      Iso(2020, 1, 13),        \* 2020-01-13
      Slash(1, 2, 2020),       \* 01/02/2020: 1 Feb as day/month, 2 Jan as month/day
      Slash(13, 1, 2020),      \* 13/01/2020: day/month only
      Slash(1, 13, 2020),      \* 01/13/2020: month/day only
      Text,
      Null }

LevelCells == { Num(-210), NumStr(-211), Text }

RawRows == [d : DateCells, v : LevelCells]

\* A row every step accepts.
PlainRow == [d |-> IsoT(2020, 1, 2), v |-> Num(-210)]

RawTables == UNION { [1..n -> RawRows] : n \in 0..MaxRows }

\* The record of row r (the i-th of the input) under a schema.
RecordOf(sch, r, i) ==
    [name \in {sch[j].name : j \in DOMAIN sch} |->
        LET f == CHOOSE g \in Range(sch) : g.name = name
        IN  CASE f.carries = "date"  -> r.d
              [] f.carries = "level" -> r.v
              [] OTHER               -> Num(i)]

Input(sch, raw) ==
    [keys |-> [j \in DOMAIN sch |-> sch[j].name],
     rows |-> [i \in DOMAIN raw |-> RecordOf(sch, raw[i], i)]]

\* The two columns of water_level.csv, which are the two fields the script looks for.
CanonicalSchema == <<FSurveyDate, FKinneretLevel>>

\* Records whose fields already bear the names the script gives its derived columns.
DerivedSchema == <<Field(ColDate, "date"), Field(ColWaterLevel, "level")>>

\* Every schema with no row or one plain row; the canonical schema with every table;
\* the derived names with no row or one plain row.
Inputs ==
    { Input(sch, raw) : sch \in Schemas, raw \in {<<>>, <<PlainRow>>} }
    \cup { Input(CanonicalSchema, raw) : raw \in RawTables }
    \cup { Input(DerivedSchema, raw) : raw \in {<<>>, <<PlainRow>>} }

----------------------------------------------------------------------------
(* test_kinneret_api, script_just_to_test_if_API_is_working.py:50-112 *)

\* any(term in col.lower() for term in terms)
MatchesAny(terms, col) == \E i \in DOMAIN terms : Contains(terms[i], Lower(col))

\* date_columns = [col for col in df.columns if any(... ['date', 'survey', ...])]
DateColumns(cols) == SelectSeq(cols, LAMBDA col : MatchesAny(DateTerms, col))

\* level_columns = [col for col in df.columns if any(... ['level', 'kinneret', ...])]
LevelColumns(cols) == SelectSeq(cols, LAMBDA col : MatchesAny(LevelTerms, col))

\* Variant: the last match instead of the first.
LastOf(columns) == columns[Len(columns)]

\* date_col = date_columns[0]; level_col = level_columns[0]
FirstOf(columns) == columns[1]

\* No column: an unset date_col or level_col, Python's None for a field name.
NoCol == <<>>

\* pd.to_numeric(..., errors='coerce') of one cell
ToNumeric(cell) ==
    IF cell.k \in {"num", "numstr"} THEN Num(cell.a) ELSE NaN

\* date_formats, line 80
FmtIsoT == "%Y-%m-%dT%H:%M:%S"
FmtIso  == "%Y-%m-%d"
FmtDMY  == "%d/%m/%Y"
FmtMDY  == "%m/%d/%Y"
\* Variant: month/day/year tried before day/month/year.
date_formats_month_first == <<FmtIsoT, FmtIso, FmtMDY, FmtDMY>>

date_formats == <<FmtIsoT, FmtIso, FmtDMY, FmtMDY>>

Fail == Cell("fail", 0, 0, 0)

\* One string against one format (the match is exact).
Strptime(fmt, cell) ==
    CASE fmt = FmtIsoT /\ cell.k = "iso_t" -> Ts(cell.a, cell.b, cell.c)
      [] fmt = FmtIso /\ cell.k = "iso"    -> Ts(cell.a, cell.b, cell.c)
      [] fmt = FmtDMY /\ cell.k = "slash" /\ ValidDate(cell.b, cell.a)
                                           -> Ts(cell.c, cell.b, cell.a)
      [] fmt = FmtMDY /\ cell.k = "slash" /\ ValidDate(cell.a, cell.b)
                                           -> Ts(cell.c, cell.a, cell.b)
      [] OTHER                             -> Fail

\* pd.to_datetime(column, format=fmt) does not raise: every non-null value matches.
ParsesColumn(column, fmt) ==
    \A i \in DOMAIN column : IsNull(column[i]) \/ Strptime(fmt, column[i]) # Fail

\* pd.to_datetime(column, format=fmt), when it does not raise
ToDatetimeFormat(column, fmt) ==
    [i \in DOMAIN column |->
        IF IsNull(column[i]) THEN NaT ELSE Strptime(fmt, column[i])]

\* The formats of date_formats that convert the column, in the order of the list.
ConvertingFormats(column) ==
    SelectSeq(date_formats, LAMBDA fmt : ParsesColumn(column, fmt))

\* pd.to_datetime(column, errors='coerce') with no format.  Two library behaviours:
\*   "elementwise"  each value is parsed on its own (month first when both readings
\*                  of a/b/y are dates);
\*   "inferred"     the format is guessed from the first non-null value and applied to
\*                  every value; when no format can be guessed, as "elementwise".
ParseAny(cell) ==
    CASE cell.k \in {"iso_t", "iso"}                       -> Ts(cell.a, cell.b, cell.c)
      [] cell.k = "slash" /\ ValidDate(cell.a, cell.b)     -> Ts(cell.c, cell.a, cell.b)
      [] cell.k = "slash" /\ ValidDate(cell.b, cell.a)     -> Ts(cell.c, cell.b, cell.a)
      [] OTHER                                             -> NaT

GuessFormat(cell) ==
    CASE cell.k = "iso_t"                                  -> FmtIsoT
      [] cell.k = "iso"                                    -> FmtIso
      [] cell.k = "slash" /\ ValidDate(cell.a, cell.b)     -> FmtMDY
      [] cell.k = "slash" /\ ValidDate(cell.b, cell.a)     -> FmtDMY
      [] OTHER                                             -> "none"

CoerceWith(fmt, cell) ==
    IF IsNull(cell) \/ Strptime(fmt, cell) = Fail THEN NaT ELSE Strptime(fmt, cell)

ToDatetimeCoerce(column, mode) ==
    LET nonnull == {i \in DOMAIN column : ~IsNull(column[i])}
        first   == CHOOSE i \in nonnull : \A j \in nonnull : i <= j
        guess   == IF nonnull = {} THEN "none" ELSE GuessFormat(column[first])
    IN  IF mode = "inferred" /\ guess # "none"
        THEN [i \in DOMAIN column |-> CoerceWith(guess, column[i])]
        ELSE [i \in DOMAIN column |-> ParseAny(column[i])]

\* df['date'].dt.year, df['date'].dt.month
YearOf(ts)  == IF ts.k = "ts" THEN Num(ts.a) ELSE NaN
MonthOf(ts) == IF ts.k = "ts" THEN Num(ts.b) ELSE NaN

Orders(n) ==
    { p \in [1..n -> 1..n] : \A i, j \in 1..n : i # j => p[i] # p[j] }

\* Variant: the rows are left in their input order.
InputOrder(d, name) == { [i \in DOMAIN d.rows |-> i] }

\* df.sort_values(name): the orders the sort can produce.  Nulls go last, in their
\* original order; the default sort is not stable, so equal keys come in any order.
SortOrders(d, name) ==
    { p \in Orders(Len(d.rows)) :
        \A i, j \in DOMAIN p : i < j =>
            LET x == d.rows[p[i]][name]
                y == d.rows[p[j]][name]
            IN  /\ ~(IsNull(x) /\ ~IsNull(y))
                /\ (~IsNull(x) /\ ~IsNull(y)) => DateKey(x) <= DateKey(y)
                /\ (IsNull(x) /\ IsNull(y)) => p[i] < p[j] }

\* Variant: only the first column of the subset is looked at.
DropNaDateOnly(d, subset) ==
    LET keep == SelectSeq([i \in DOMAIN d.rows |-> i],
                          LAMBDA i : ~IsNull(d.rows[i][subset[1]]))
    IN  Take(d, keep)

\* df.dropna(subset=[...])
DropNa(d, subset) ==
    LET keep == SelectSeq([i \in DOMAIN d.rows |-> i],
                          LAMBDA i : \A k \in DOMAIN subset : ~IsNull(d.rows[i][subset[k]]))
    IN  Take(d, keep)

NoFrame == EmptyFrame(<<>>)

InitNormVars ==
    /\ df = NoFrame
    /\ date_columns = <<>>
    /\ level_columns = <<>>
    /\ date_col = NoCol
    /\ level_col = NoCol
    /\ date_field = NoCol
    /\ level_field = NoCol
    /\ adopted = "none"
    /\ dropped = 0
    /\ steps = <<>>

\* lines 50-77: build the DataFrame, identify the two columns, copy the date column
\* to 'Survey_Date' and the coerced level column to 'Kinneret_Level'.
IdentifyColumns ==
    /\ npc = "start"
    /\ UNCHANGED fetch_vars
    /\ LET df0 == DataFrame(records.rows, records.keys)
           dcs == DateColumns(df0.cols)
           lcs == LevelColumns(df0.cols)
           df1 == IF dcs # <<>>
                  THEN SetCol(df0, Survey_Date, Col(df0, FirstOf(dcs)))
                  ELSE df0
           df2 == IF lcs # <<>>
                  THEN SetCol(df1, Kinneret_Level,
                              [i \in DOMAIN df1.rows |->
                                  ToNumeric(df1.rows[i][FirstOf(lcs)])])
                  ELSE df1
       IN  /\ date_columns' = dcs
           /\ level_columns' = lcs
           /\ date_col' = IF dcs # <<>> THEN FirstOf(dcs) ELSE NoCol
           /\ level_col' = IF lcs # <<>> THEN FirstOf(lcs) ELSE NoCol
           /\ df' = df2
           /\ steps' = IF lcs # <<>> THEN <<"identify", "coerce">> ELSE <<"identify">>
    /\ npc' = "dates"
    /\ UNCHANGED <<records, date_field, level_field, adopted, dropped>>

\* lines 79-98: the format loop, then the automatic parsing when no format converted
\* the column.
ConvertDates ==
    /\ npc = "dates"
    /\ UNCHANGED fetch_vars
    /\ HasCol(df, Survey_Date)
    /\ LET column == Col(df, Survey_Date)
           fmts   == ConvertingFormats(column)
       IN  IF fmts # <<>>
           THEN /\ df' = SetCol(df, ColDate, ToDatetimeFormat(column, fmts[1]))
                /\ adopted' = fmts[1]
                /\ steps' = Append(steps, "formats")
           ELSE /\ \E mode \in {"elementwise", "inferred"} :
                      df' = SetCol(df, ColDate, ToDatetimeCoerce(column, mode))
                /\ adopted' = "auto"
                /\ steps' = steps \o <<"formats", "auto">>
    /\ npc' = "derive"
    /\ UNCHANGED <<records, date_columns, level_columns, date_col, level_col,
                   date_field, level_field, dropped>>

\* lines 79-94 without a 'Survey_Date' column: each df['Survey_Date'] of the loop
\* raises KeyError, which the loop catches; the one of line 94 is not caught.
ConvertDatesKeyError ==
    /\ npc = "dates"
    /\ UNCHANGED fetch_vars
    /\ ~HasCol(df, Survey_Date)
    /\ steps' = steps \o <<"formats", "auto">>
    /\ npc' = "raised"
    /\ UNCHANGED <<records, df, date_columns, level_columns, date_col, level_col,
                   date_field, level_field, adopted, dropped>>

\* lines 100-103
Derive ==
    /\ npc = "derive"
    /\ UNCHANGED fetch_vars
    /\ HasCol(df, Kinneret_Level)
    /\ LET df1 == SetCol(df, ColWaterLevel, Col(df, Kinneret_Level))
           df2 == SetCol(df1, ColYear, [i \in DOMAIN df1.rows |-> YearOf(df1.rows[i][ColDate])])
           df3 == SetCol(df2, ColMonth, [i \in DOMAIN df2.rows |-> MonthOf(df2.rows[i][ColDate])])
       IN  df' = df3
    /\ steps' = Append(steps, "derive")
    /\ npc' = "clean"
    /\ UNCHANGED <<records, date_columns, level_columns, date_col, level_col,
                   date_field, level_field, adopted, dropped>>

\* line 101 without a 'Kinneret_Level' column: KeyError
DeriveKeyError ==
    /\ npc = "derive"
    /\ UNCHANGED fetch_vars
    /\ ~HasCol(df, Kinneret_Level)
    /\ steps' = Append(steps, "derive")
    /\ npc' = "raised"
    /\ UNCHANGED <<records, df, date_columns, level_columns, date_col, level_col,
                   date_field, level_field, adopted, dropped>>

\* lines 105-112: sort, drop the rows with a null date or level, count them, re-index.
SortAndClean ==
    /\ npc = "clean"
    /\ UNCHANGED fetch_vars
    /\ \E p \in SortOrders(df, ColDate) :
          LET sorted         == Take(df, p)
              original_count == Len(sorted.rows)
              cleaned        == DropNa(sorted, <<ColDate, ColWaterLevel>>)
          IN  /\ df' = ResetIndex(cleaned)
              /\ dropped' = original_count - Len(cleaned.rows)
    /\ steps' = Append(steps, "clean")
    /\ npc' = "returned"
    /\ UNCHANGED <<records, date_columns, level_columns, date_col, level_col,
                   date_field, level_field, adopted>>

----------------------------------------------------------------------------
(* load_data, streamlit_water_level_project.py:127-158 *)

LoadedColumns == <<ColDate, ColWaterLevel, ColYear, ColMonth>>

\* pd.read_csv + df.columns = ['Survey_Date', 'Kinneret_Level'] do not raise: the file
\* has a header of exactly two columns.
CsvReadable(recs) == Len(recs.keys) = 2

\* The frame after line 135: the two columns of the file under their new names.
CsvFrame(recs) ==
    [cols  |-> <<Survey_Date, Kinneret_Level>>,
     index |-> [i \in DOMAIN recs.rows |-> i - 1],
     rows  |-> [i \in DOMAIN recs.rows |->
                  [c \in {Survey_Date, Kinneret_Level} |->
                      IF c = Survey_Date THEN recs.rows[i][recs.keys[1]]
                      ELSE recs.rows[i][recs.keys[2]]]]]

\* the try block ran to its end
LoadData ==
    /\ npc = "start"
    /\ UNCHANGED fetch_vars
    /\ CsvReadable(records)
    /\ ParsesColumn(Col(CsvFrame(records), Survey_Date), FmtDMY)
    /\ LET df0 == CsvFrame(records)
           df1 == SetCol(df0, ColDate, ToDatetimeFormat(Col(df0, Survey_Date), FmtDMY))
           df2 == SetCol(df1, ColWaterLevel, Col(df1, Kinneret_Level))
           df3 == SetCol(df2, ColYear, [i \in DOMAIN df2.rows |-> YearOf(df2.rows[i][ColDate])])
           df4 == SetCol(df3, ColMonth, [i \in DOMAIN df3.rows |-> MonthOf(df3.rows[i][ColDate])])
       IN  \E p \in SortOrders(df4, ColDate) : df' = ResetIndex(Take(df4, p))
    /\ npc' = "loaded"
    /\ UNCHANGED <<records, date_columns, level_columns, date_col, level_col,
                   date_field, level_field, adopted, dropped, steps>>

\* an exception in the try block: the empty frame with the expected columns
LoadDataFallback ==
    /\ npc = "start"
    /\ UNCHANGED fetch_vars
    /\ IF CsvReadable(records)
       THEN ~ParsesColumn(Col(CsvFrame(records), Survey_Date), FmtDMY)
       ELSE TRUE
    /\ df' = EmptyFrame(LoadedColumns)
    /\ npc' = "fallback"
    /\ UNCHANGED <<records, date_columns, level_columns, date_col, level_col,
                   date_field, level_field, adopted, dropped, steps>>

----------------------------------------------------------------------------
(* print_kinneret_data_sample, testing_api.py:100-121 (the field names) *)

\* next((field for field in keys if term in field.lower()), None)
NextField(keys, term) ==
    LET found == SelectSeq(keys, LAMBDA field : Contains(term, Lower(field)))
    IN  IF found # <<>> THEN FirstOf(found) ELSE NoCol

\* `if not records: return`, else the two fields from the keys of the first record
SampleFields ==
    /\ npc = "start"
    /\ UNCHANGED fetch_vars
    /\ IF records.rows = <<>>
       THEN UNCHANGED <<date_field, level_field>>
       ELSE /\ date_field' = NextField(records.keys, KwDate)
            /\ level_field' = NextField(records.keys, KwLevel)
    /\ npc' = "sampled"
    /\ UNCHANGED <<records, df, date_columns, level_columns, date_col, level_col,
                   adopted, dropped, steps>>

NextNormalize ==
    \/ SampleFields
    \/ IdentifyColumns
    \/ ConvertDates
    \/ ConvertDatesKeyError
    \/ Derive
    \/ DeriveKeyError
    \/ SortAndClean
    \/ LoadData
    \/ LoadDataFallback


----------------------------------------------------------------------------
(* Specifications *)

InitFetch ==
    /\ InitFetchVars
    /\ fpc = "loop"
    /\ InitNormVars
    /\ records = <<>>
    /\ npc = "idle"

\* Every request is answered or fails (no request hangs), and the loop keeps running.
FetchSpec == InitFetch /\ [][NextFetch]_vars /\ WF_vars(NextFetch)

\* Two invocations in a row, the second after the first returned an empty list.
TwoRunSpec == InitFetch /\ [][NextTwoRuns]_vars /\ WF_vars(NextTwoRuns)

InitNormalize ==
    /\ InitFetchVars
    /\ fpc = "idle"
    /\ InitNormVars
    /\ records \in Inputs
    /\ npc = "start"

NormalizeSpec == InitNormalize /\ [][NextNormalize]_vars

----------------------------------------------------------------------------
(* Claims about the fetcher, checked under FetchSpec *)

CeilDiv(a, b) == (a + b - 1) \div b

\* The total the fetch read from the server (0 before any page was accumulated).
TotalSeen == IF total_records.kind = "int" THEN total_records.v ELSE 0

\* C1 (as stated): whenever the fetch returned after at least one non-empty page, the
\* number of records returned is at most the total the server reported, whatever
\* number of records each page carries.
C1_LengthAtMostTotal ==
    (fpc = "returned" /\ all_records # <<>>) => Len(all_records) <= total_records.v

\* C1 (amended): the number of records accumulated is at most the total read from the
\* first page, provided every accumulated page carried at most
\* min(batch_size, total - offset) records.
C1_LengthAtMostTotalWhenPagesFit ==
    (all_records # <<>> /\ within) =>
        /\ total_records.kind = "int"
        /\ Len(all_records) <= total_records.v

\* C1 witness: a fetch of several pages, all fitting, returned exactly `total` records.
C1_Witness ==
    /\ fpc = "returned"
    /\ within
    /\ requests >= 2
    /\ Len(all_records) > batch_size
    /\ Len(all_records) = total_records.v

\* C2 (as stated, its bound): while no request has failed, at most
\* ceil(total / batch_size) + 1 requests have been issued.
C2_RequestBound ==
    clean => requests <= CeilDiv(TotalSeen, batch_size) + 1

\* C2 (amended): the fetch always terminates, and while no request has failed and no
\* non-empty page was served at an offset at or beyond the total, at most
\* ceil(total / batch_size) + 1 requests have been issued.
C2_TerminatesWithinBound ==
    /\ <>(fpc # "loop")
    /\ []((clean /\ ~beyond) => requests <= CeilDiv(TotalSeen, batch_size) + 1)

\* C2 witness: a failure-free fetch that used exactly ceil(total / batch_size) + 1
\* requests, the last one answered with an empty page.
C2_Witness ==
    /\ fpc = "returned"
    /\ clean /\ ~beyond
    /\ total_records.kind = "int"
    /\ total_records.v > batch_size
    /\ last.n = 0
    /\ requests = CeilDiv(total_records.v, batch_size) + 1

\* C3: when a request fails (network error, non-2xx status, body that is no JSON, or
\* success false), the fetch has returned, the failed request is the last one issued,
\* and what it returns is exactly what was accumulated before that request.
C3_FailureReturnsPartial ==
    FailedLast => (fpc = "returned" /\ all_records = prev_records)

\* C3 witness: a request failed after records had been accumulated.
C3_Witness ==
    /\ FailedLast
    /\ requests >= 2
    /\ fpc = "returned"
    /\ all_records # <<>>

\* C4: an answer whose envelope deviates from {success, result.total, result.records}
\* ends the fetch as a failure: none of its records are added and no exception escapes.
C4_DeviationIsFailure ==
    (requests > 0 /\ last.outcome = "json" /\ ~WellFormed(last)) =>
        (fpc = "returned" /\ all_records = prev_records)

----------------------------------------------------------------------------
(* Claims about the normalizer, checked under NormalizeSpec *)

\* The script's steps ran to the end / load_data returned a frame.
Normalized == npc \in {"returned", "loaded", "fallback"}

\* The cell of the date field / the level field of the i-th input record, for the
\* inputs with the canonical schema.
InputDate(i)  == records.rows[i][Survey_Date]
InputLevel(i) == records.rows[i][Kinneret_Level]

\* C5: after normalization the rows are in non-decreasing order of `date`: a row with
\* a date is preceded only by rows with dates that are not later.
C5_SortedByDate ==
    Normalized =>
        \A i, j \in DOMAIN df.rows : i < j =>
            LET x == df.rows[i][ColDate]
                y == df.rows[j][ColDate]
            IN  ~IsNull(y) => (~IsNull(x) /\ DateKey(x) <= DateKey(y))

\* C5 witness: two records supplied latest first come out earliest first.
C5_Witness ==
    /\ npc = "returned"
    /\ Len(records.rows) = 2
    /\ Len(df.rows) = 2
    /\ df.rows[1][Survey_Date] = InputDate(2)
    /\ df.rows[2][Survey_Date] = InputDate(1)
    /\ DateKey(df.rows[1][ColDate]) < DateKey(df.rows[2][ColDate])

\* The rows of d with a date and a level.
Complete(d) ==
    {i \in DOMAIN d.rows : ~IsNull(d.rows[i][ColDate]) /\ ~IsNull(d.rows[i][ColWaterLevel])}

\* How often the row r occurs among the rows at the positions `among` of d.
Occurrences(d, among, r) == Cardinality({i \in among : d.rows[i] = r})

\* C6: the cleaning step keeps exactly the rows whose date parsed and whose value
\* coerced to a number (each as often as it occurs), drops every other row, and reports
\* as dropped the number of input rows minus the number of output rows.  A value
\* coerced exactly when the input cell is a number or spells one; a date that is text
\* or missing did not parse, and under an adopted format every other date parsed.
C6_KeepsExactlyCompleteRows ==
    [][npc = "clean" =>
        /\ Len(df.rows) = Len(records.rows)
        /\ \A i \in DOMAIN df.rows :
              /\ records.rows[i][level_col].k \in {"num", "numstr"}
                    <=> ~IsNull(df.rows[i][ColWaterLevel])
              /\ records.rows[i][date_col].k \in {"text", "null"}
                    => IsNull(df.rows[i][ColDate])
              /\ (adopted # "auto" /\ records.rows[i][date_col].k \notin {"text", "null"})
                    => ~IsNull(df.rows[i][ColDate])
        /\ Len(df'.rows) = Cardinality(Complete(df))
        /\ Complete(df') = DOMAIN df'.rows
        /\ \A i \in Complete(df) :
              Occurrences(df', DOMAIN df'.rows, df.rows[i])
                  = Occurrences(df, Complete(df), df.rows[i])
        /\ dropped' = Len(records.rows) - Len(df'.rows)]_vars

\* C6 witness: of two records, one with a date that does not parse and a value that
\* is no number, the other sound: one row is kept and one is reported dropped.
C6_Witness ==
    /\ npc = "returned"
    /\ Len(records.rows) = 2
    /\ \E i \in DOMAIN records.rows : InputDate(i) = Text /\ InputLevel(i) = Text
    /\ Len(df.rows) = 1
    /\ dropped = 1

\* C7: given no records, normalization raises no exception (and returns an empty
\* Dataset with the fixed fields).
C7_EmptyInputReturnsEmptyDataset ==
    records.rows = <<>> =>
        /\ npc # "raised"
        /\ Normalized => (df.rows = <<>> /\ Range(LoadedColumns) \subseteq Range(df.cols))

\* C8: when no field name matches the date keywords, or none the value keywords, the
\* script ends by returning an empty Dataset: it does not end in an exception, and it
\* ran none of the coercion, date parsing and derivation steps.
C8_NoFieldEndsEmpty ==
    (npc \in {"returned", "raised"}
        /\ records.rows # <<>>
        /\ (date_columns = <<>> \/ level_columns = <<>>)) =>
        /\ npc = "returned"
        /\ df.rows = <<>>
        /\ Range(steps) \subseteq {"identify"}

\* The field names of the inputs that contain a keyword, listed by hand.
NamesWithDateTerm   == {Survey_Date, KwTaarikh, ColDate}  \* 'date' / 'survey' / the Hebrew word
NamesWithLevelTerm  == {Kinneret_Level, FLEVEL.name, ColWaterLevel}
NamesWithDate       == {Survey_Date, ColDate}             \* 'date' alone
NamesWithLevel      == {Kinneret_Level, FLEVEL.name, ColWaterLevel}

\* The first of the names `wanted` in `keys`, NoCol when there is none.
FirstAmong(keys, wanted) ==
    IF \E i \in DOMAIN keys : keys[i] \in wanted
    THEN keys[CHOOSE i \in DOMAIN keys :
                 keys[i] \in wanted /\ \A j \in 1..(i - 1) : keys[j] \notin wanted]
    ELSE NoCol

\* C9: field inference selects as date field the first field name, in the order of the
\* record's keys, whose lowercased form contains a date keyword, and as value field the
\* first that contains a value keyword; with the fields Survey_Date and Kinneret_Level
\* (and no other field that contains a keyword) it selects exactly those two.
C9_FirstMatchingField ==
    /\ (npc \in {"dates", "derive", "clean", "returned", "raised"} /\ records.rows # <<>>) =>
          /\ date_col = FirstAmong(records.keys, NamesWithDateTerm)
          /\ level_col = FirstAmong(records.keys, NamesWithLevelTerm)
          /\ (/\ Survey_Date \in Range(records.keys)
              /\ Kinneret_Level \in Range(records.keys)
              /\ KwTaarikh \notin Range(records.keys)
              /\ FLEVEL.name \notin Range(records.keys))
                => (date_col = Survey_Date /\ level_col = Kinneret_Level)
    /\ (npc = "sampled" /\ records.rows # <<>>) =>
          /\ date_field = FirstAmong(records.keys, NamesWithDate)
          /\ level_field = FirstAmong(records.keys, NamesWithLevel)

\* C9 witness: two fields contain a date keyword and two a value keyword; the first of
\* each pair was selected, the other was not.
C9_Witness ==
    /\ npc = "dates"
    /\ records.rows # <<>>
    /\ records.keys = <<KwTaarikh, FLEVEL.name, Survey_Date>>
    /\ date_col = KwTaarikh
    /\ level_col = FLEVEL.name

\* Every value of the column is a day/month/year string.
AllDayMonthYear(column) ==
    /\ column # <<>>
    /\ \A i \in DOMAIN column : column[i].k = "slash" /\ ValidDate(column[i].b, column[i].a)

\* C10: the date conversion adopts, for all rows, the first format of the list that
\* parses every value of the column; the automatic per-value parsing is used only when
\* no format parses the whole column; a column entirely of day/month/year strings is
\* converted with '%d/%m/%Y'.
C10_FirstFormatOfWholeColumn ==
    (npc \in {"derive", "clean"}) =>
        LET column == Col(df, Survey_Date)
            whole(fmt) == \A i \in DOMAIN column :
                              IsNull(column[i]) \/ Strptime(fmt, column[i]) # Fail
        IN  /\ adopted \in Range(date_formats) \cup {"auto"}
            /\ adopted = "auto" => \A k \in 1..4 : ~whole(<<FmtIsoT, FmtIso, FmtDMY, FmtMDY>>[k])
            /\ \A k \in 1..4 :
                  adopted = <<FmtIsoT, FmtIso, FmtDMY, FmtMDY>>[k] =>
                      /\ whole(adopted)
                      /\ \A e \in 1..(k - 1) : ~whole(<<FmtIsoT, FmtIso, FmtDMY, FmtMDY>>[e])
                      /\ \A i \in DOMAIN column :
                            df.rows[i][ColDate] =
                                IF IsNull(column[i]) THEN NaT ELSE Strptime(adopted, column[i])
            /\ AllDayMonthYear(column) => adopted = FmtDMY

\* C10 witness: a column of two day/month/year strings, one of them also a
\* month/day/year string, was converted with '%d/%m/%Y'.
C10_Witness ==
    /\ npc = "derive"
    /\ adopted = FmtDMY
    /\ Len(df.rows) = 2
    /\ df.rows[1][Survey_Date] = Slash(1, 2, 2020)
    /\ df.rows[1][ColDate] = Ts(2020, 2, 1)
    /\ df.rows[2][Survey_Date] = Slash(13, 1, 2020)

\* What identifies a row across the script's sort: its date cell and its coerced level.
ScriptKeyIn(i)  == <<records.rows[i][date_col], ToNumeric(records.rows[i][level_col])>>
ScriptKeyOut(i) == <<df.rows[i][date_col], df.rows[i][ColWaterLevel]>>

\* The same across load_data: the two cells of the CSV line.
CsvKeyIn(i)  == <<records.rows[i][records.keys[1]], records.rows[i][records.keys[2]]>>
CsvKeyOut(i) == <<df.rows[i][Survey_Date], df.rows[i][Kinneret_Level]>>

\* C11: rows that share a date are all retained, and come out in the order in which
\* they came in: of two output rows with the same date, the earlier one is a record
\* that was supplied before the later one.
C11_EqualDatesKeepInputOrder ==
    /\ npc = "returned" =>
          /\ Len(df.rows) + dropped = Len(records.rows)
          /\ \A a, b \in DOMAIN df.rows :
                (a < b /\ df.rows[a][ColDate] = df.rows[b][ColDate]) =>
                    \E i, j \in DOMAIN records.rows :
                        i < j /\ ScriptKeyIn(i) = ScriptKeyOut(a) /\ ScriptKeyIn(j) = ScriptKeyOut(b)
    /\ npc = "loaded" =>
          /\ Len(df.rows) = Len(records.rows)
          /\ \A a, b \in DOMAIN df.rows :
                (a < b /\ df.rows[a][ColDate] = df.rows[b][ColDate]) =>
                    \E i, j \in DOMAIN records.rows :
                        i < j /\ CsvKeyIn(i) = CsvKeyOut(a) /\ CsvKeyIn(j) = CsvKeyOut(b)

----------------------------------------------------------------------------
(* Further claims about the fetcher, checked under FetchSpec *)

\* C12: the fetch never retries: the offsets requested are pairwise different (each
\* is requested at most once, in increasing order), and once a request has failed no
\* further request is issued.
C12_NoRetry ==
    /\ [](/\ Len(requested) = requests
          /\ \A i, j \in DOMAIN requested : i < j => requested[i] < requested[j])
    /\ [][FailedLast => requests' = requests]_vars

\* C12 witness: a fetch that asked for three different offsets and whose third request
\* failed has returned.
C12_Witness ==
    /\ Len(requested) = 3
    /\ requested = <<0, batch_size, 2 * batch_size>>
    /\ FailedLast
    /\ fpc = "returned"

\* C16: against a server that holds N records, answers every request with the records
\* at [offset, offset + limit) and total = N, and never fails, the fetch raises no
\* exception and returns exactly the N records, in server order, each once.
C16_ExactServerAllRecords ==
    server = "exact" =>
        /\ fpc # "raised"
        /\ fpc = "returned" => all_records = Recs(0, last.t)

\* C16 witness: such a fetch returned after several pages, the last one partly filled.
C16_Witness ==
    /\ server = "exact"
    /\ fpc = "returned"
    /\ requests >= 2
    /\ Len(all_records) > batch_size
    /\ Len(all_records) % batch_size # 0
    /\ Len(all_records) = last.t

\* C17: when the server caps a page below the requested limit (fewer than batch_size
\* records on a page that is not the last), no record is skipped: what has been
\* accumulated is a contiguous prefix of the server's sequence.
C17_CappedServerNoGap ==
    server = "capped" => all_records = Recs(0, Len(all_records))

\* C14: once the first page has succeeded with at least one record (records were
\* accumulated and an integer total was read), the fetch ends by returning them,
\* whatever happens on a later page; and a fetch that returned nothing made exactly
\* one request.
C14_FirstPageGuaranteesResult ==
    /\ (all_records # <<>> /\ total_records.kind = "int" /\ fpc # "loop") =>
            fpc = "returned"
    /\ (fpc = "returned" /\ all_records = <<>>) => requests = 1

----------------------------------------------------------------------------
(* Further claims about the normalizer, checked under NormalizeSpec *)

\* The date role's cell of an output row: the raw value the script copied from the
\* selected field, or its parsed value where the selected field is itself named `date`
\* and was overwritten by the conversion.
DateRoleCell(row) == IF date_col = ColDate THEN row[ColDate] ELSE row[Survey_Date]

\* C15: field inference run on the column names of the script's own output finds a
\* date field and a level field again; they are the fields selected on the input, the
\* date field holds the date role's data, and the level field coerces to the level the
\* script derived.  Inference with the single date keyword `date` also resolves to a
\* field that holds the date role's data.
C15_InferenceRoundTrip ==
    npc = "returned" =>
        LET dcs == DateColumns(df.cols)
            lcs == LevelColumns(df.cols)
            ds  == SelectSeq(df.cols, LAMBDA col : MatchesAny(<<KwDate>>, col))
        IN  /\ dcs # <<>> /\ lcs # <<>> /\ ds # <<>>
            /\ FirstOf(dcs) = date_col
            /\ FirstOf(lcs) = level_col
            /\ \A i \in DOMAIN df.rows :
                  /\ df.rows[i][FirstOf(dcs)] = DateRoleCell(df.rows[i])
                  /\ df.rows[i][FirstOf(ds)] \in {df.rows[i][Survey_Date], df.rows[i][ColDate]}
                  /\ ToNumeric(df.rows[i][FirstOf(lcs)]) = df.rows[i][Kinneret_Level]
                  /\ df.rows[i][Kinneret_Level] = df.rows[i][ColWaterLevel]

\* C15 witness: the script returned rows for an input whose date field is found only
\* through a keyword other than `date`, so that the derived columns are the only ones
\* whose names contain `date`.
C15_Witness ==
    /\ npc = "returned"
    /\ df.rows # <<>>
    /\ date_col = KwTaarikh
    /\ level_col \notin {Kinneret_Level, ColWaterLevel}

----------------------------------------------------------------------------
(* Claim about two invocations of the fetcher, checked under TwoRunSpec *)

\* C13: what the caller is handed (the returned list, and the message __main__ derives
\* from it) tells an empty result caused by a failure from an empty result caused by
\* there being no data: of two invocations that returned, one after a failed request
\* and one in which every answer was a well-formed success, the caller is not handed
\* the same.
C13_FailureDistinguishable ==
    (/\ earlier.ran
     /\ fpc = "returned"
     /\ \/ (earlier.failed /\ clean)
        \/ (earlier.clean /\ FailedLast)) =>
        <<earlier.result, earlier.message>> # <<all_records, MainMessage(all_records)>>

====
